---------------------------- MODULE Spec2Model ----------------------------
(***************************************************************************)
(* A model of the DeCAF reference implementation                           *)
(* (decaf-reference/decaf_reference.go): Archive walks a directory tree,   *)
(* builds listings, sorts them, packs them into bundles and serialises the *)
(* archive; Unarchive verifies an archive and materialises its listings.   *)
(*                                                                         *)
(* Byte strings are sequences of 0..255.  A uint64 is kept as its eight    *)
(* little-endian bytes, so that values decoded from an archive keep their  *)
(* full width and sums wrap modulo 2^64 as they do in Go.                  *)
(***************************************************************************)
EXTENDS Integers, Sequences, FiniteSets, TLC

(***************************************************************************)
(* Bounds of the model.                                                    *)
(***************************************************************************)
\* the largest number of entries below the apex of a source tree
MaxEntries == 3
\* the most spare capacity (zeroed bytes past len) of the slice handed to Unarchive
MaxSlack == 1

(***************************************************************************)
(* Bytes and fixed-width integers.                                         *)
(***************************************************************************)
Min(a, b) == IF a < b THEN a ELSE b

\* binary.LittleEndian.AppendUint64 of a value below 2^31
LE64(n) ==
    << n % 256, (n \div 256) % 256, (n \div 65536) % 256,
       (n \div 16777216) % 256, 0, 0, 0, 0 >>

\* binary.LittleEndian.AppendUint16
LE16(n) == << n % 256, (n \div 256) % 256 >>

\* binary.LittleEndian.Uint16
U16(b) == b[1] + 256 * b[2]

\* uint64 addition: wraps modulo 2^64
U64Add(a, b) ==
    LET c[i \in 0..8] == IF i = 0 THEN 0 ELSE (a[i] + b[i] + c[i - 1]) \div 256
    IN  [i \in 1..8 |-> (a[i] + b[i] + c[i - 1]) % 256]

\* uint64 multiplication by the 24 bytes of a bundle record: wraps modulo 2^64
U64Mul24(a) ==
    LET c[i \in 0..8] == IF i = 0 THEN 0 ELSE (a[i] * 24 + c[i - 1]) \div 256
    IN  [i \in 1..8 |-> (a[i] * 24 + c[i - 1]) % 256]

\* a < b on uint64
U64Lt(a, b) ==
    \E i \in 1..8 : a[i] < b[i] /\ \A j \in (i + 1)..8 : a[j] = b[j]

U64Le(a, b) == a = b \/ U64Lt(a, b)

\* the value of a uint64 known to be at most a length of the model
U64Nat(a) == a[1] + 256 * a[2] + 65536 * a[3] + 16777216 * a[4]

(***************************************************************************)
(* xxhash3.Hash: a 64-bit digest of a byte string.  The library is not     *)
(* part of the repository; it is modelled as a polynomial digest over a    *)
(* prime field, which, like the real function, depends on every byte and   *)
(* on the length, and returns a non-zero digest for the empty string.      *)
(***************************************************************************)
HashPrime == 32749

\* 257^k modulo HashPrime, by repeated squaring
RECURSIVE HashPow(_)
HashPow(k) ==
    IF k = 0 THEN 1
    ELSE LET h == HashPow(k \div 2)
         IN  (((h * h) % HashPrime) * (IF k % 2 = 1 THEN 257 ELSE 1)) % HashPrime

\* the polynomial of s[lo..hi], most significant byte first
RECURSIVE HashPoly(_, _, _)
HashPoly(s, lo, hi) ==
    IF lo > hi THEN 0
    ELSE IF lo = hi THEN s[lo] + 1
    ELSE LET mid == (lo + hi) \div 2
         IN  (HashPoly(s, lo, mid) * HashPow(hi - mid) + HashPoly(s, mid + 1, hi))
                 % HashPrime

HashNat(s) == (7 * HashPow(Len(s)) + HashPoly(s, 1, Len(s))) % HashPrime

Hash(s) == LE64(HashNat(s))


(***************************************************************************)
(* zstd.CompressLevel / zstd.Decompress.  The library is not part of the   *)
(* repository; it is modelled by the zstd frame it writes for a small      *)
(* input: the magic 28 B5 2F FD, a single-segment frame header with the    *)
(* content size, and one last block, which is an RLE block when the input  *)
(* is a run of one byte and a raw block otherwise.  The frame of the empty *)
(* input is 28 B5 2F FD 20 00 01 00 00, as zstd writes it.                 *)
(***************************************************************************)
ZstdMagic == << 40, 181, 47, 253 >>

ZstdIsRun(d) == Len(d) >= 2 /\ \A i \in 1..Len(d) : d[i] = d[1]

\* the three bytes of a block header: last-block bit, block type, block size
ZstdBlockHeader(type, size) ==
    LET h == 1 + 2 * type + 8 * size
    IN  << h % 256, (h \div 256) % 256, (h \div 65536) % 256 >>

Compress(d) ==
    ZstdMagic \o << 32, Len(d) % 256 >> \o
    (IF ZstdIsRun(d)
        THEN ZstdBlockHeader(1, Len(d)) \o << d[1] >>
        ELSE ZstdBlockHeader(0, Len(d)) \o d)

\* [ok |-> whether the frame decodes, data |-> the content]
Decompress(src) ==
    LET bad == [ok |-> FALSE, data |-> << >>]
    IN  IF Len(src) < 9 THEN bad
        ELSE IF SubSeq(src, 1, 4) # ZstdMagic \/ src[5] # 32 THEN bad
        ELSE LET fcs  == src[6]
                 h    == src[7] + 256 * src[8] + 65536 * src[9]
                 type == (h \div 2) % 4
                 size == h \div 8
             IN  IF h % 2 # 1 \/ size # fcs THEN bad
                 ELSE IF type = 0 /\ Len(src) = 9 + size
                     THEN [ok |-> TRUE, data |-> SubSeq(src, 10, 9 + size)]
                 ELSE IF type = 1 /\ Len(src) = 10
                     THEN [ok |-> TRUE, data |-> [i \in 1..size |-> src[10]]]
                 ELSE bad

(***************************************************************************)
(* Modes of a listing.                                                     *)
(***************************************************************************)
ModeNormal == 0
ModeExecutable == 1
ModeLink == 2
ModeBareDir == 3

(***************************************************************************)
(* Archive, after the walk: the canonical order (slices.SortFunc and its   *)
(* comparator), the bundle packer, and the serialisation.  A listing is a  *)
(* record [totalLength, bundleIndex, bundleOffset, contentSize, checksum,  *)
(* mode, path, fileContent]; sizes, offsets and indexes of the writer are  *)
(* naturals (they never reach 2^31 here), the checksum is a uint64.        *)
(***************************************************************************)

\* totalLength: uint16(len(relativePath)) + 35, in uint16 arithmetic
TotalLength(path) == ((Len(path) % 65536) + 35) % 65536

\* strings.Compare: -1, 0 or 1 by the first differing byte, then by length
StringsCompare(a, b) ==
    LET m == Min(Len(a), Len(b))
        D == {i \in 1..m : a[i] # b[i]}
    IN  IF D = {}
            THEN (IF Len(a) < Len(b) THEN -1 ELSE IF Len(a) > Len(b) THEN 1 ELSE 0)
            ELSE LET i == CHOOSE k \in D : \A j \in D : k <= j
                 IN  IF a[i] < b[i] THEN -1 ELSE 1

\* the comparator without its third key: listings of one size and one path
\* length are left in the order they came in
ListingCmpNoPath(a, b) ==
    IF a.contentSize # b.contentSize
        THEN (IF a.contentSize > b.contentSize THEN 1 ELSE -1)
    ELSE IF a.totalLength # b.totalLength
        THEN (IF a.totalLength > b.totalLength THEN 1 ELSE -1)
    ELSE 1

\* the comparator handed to slices.SortFunc; 0 stands for its panic
\* ("Encountered unsortable files!"), the only case with no return value
ListingCmp(a, b) ==
    IF a.contentSize # b.contentSize
        THEN (IF a.contentSize > b.contentSize THEN 1 ELSE -1)
    ELSE IF a.totalLength # b.totalLength
        THEN (IF a.totalLength > b.totalLength THEN 1 ELSE -1)
    ELSE IF a.path # b.path
        THEN StringsCompare(a.path, b.path)
    ELSE 0

Swap(data, i, j) == [data EXCEPT ![i] = data[j], ![j] = data[i]]

\* the inner loop of the insertion sort slices.SortFunc runs on a slice of
\* at most 12 elements: data[j] sinks while it compares below data[j-1]
RECURSIVE SortSink(_, _)
SortSink(st, j) ==
    IF j <= 1 THEN st
    ELSE LET c == ListingCmp(st.data[j], st.data[j - 1])
         IN  IF c = 0 THEN [st EXCEPT !.panic = TRUE]
             ELSE IF c < 0 THEN SortSink([st EXCEPT !.data = Swap(st.data, j, j - 1)], j - 1)
             ELSE st

RECURSIVE SortFrom(_, _)
SortFrom(st, i) ==
    IF st.panic \/ i > Len(st.data) THEN st
    ELSE SortFrom(SortSink(st, i), i + 1)

\* slices.SortFunc(listings, cmp): [panic, data]
SortListings(listings) == SortFrom([panic |-> FALSE, data |-> listings], 2)

\* the target bundle size, in bytes
targetBundleSize == 10 * (1024 * 1024)

\* the packer's loop over the sizes of the sorted listings, from listing i
\* with the running currentBundleIndex and currentBundleSize: the sequence
\* of [bundleIndex, bundleOffset] it assigns
RECURSIVE PackFrom(_, _, _, _)
PackFrom(sizes, i, currentBundleIndex, currentBundleSize) ==
    IF i > Len(sizes) THEN << >>
    ELSE LET fresh == currentBundleSize > targetBundleSize \/ i - 1 = Len(sizes) - 1
             idx   == IF fresh THEN currentBundleIndex + 1 ELSE currentBundleIndex
             off   == IF fresh THEN 0 ELSE currentBundleSize
         IN  << [bundleIndex |-> idx, bundleOffset |-> off] >>
                 \o PackFrom(sizes, i + 1, idx, off + sizes[i])

\* the packer's loop without the reset of currentBundleSize
RECURSIVE PackFromNoReset(_, _, _, _)
PackFromNoReset(sizes, i, currentBundleIndex, currentBundleSize) ==
    IF i > Len(sizes) THEN << >>
    ELSE LET fresh == currentBundleSize > targetBundleSize \/ i - 1 = Len(sizes) - 1
             idx   == IF fresh THEN currentBundleIndex + 1 ELSE currentBundleIndex
         IN  << [bundleIndex |-> idx, bundleOffset |-> currentBundleSize] >>
                 \o PackFromNoReset(sizes, i + 1, idx, currentBundleSize + sizes[i])

PackNoReset(sizes) == PackFromNoReset(sizes, 1, 0, 0)

Pack(sizes) == PackFrom(sizes, 1, 0, 0)

\* bundlesNeeded: the last currentBundleIndex plus one
BundlesNeeded(sizes) ==
    LET p == Pack(sizes) IN (IF p = << >> THEN 0 ELSE p[Len(p)].bundleIndex) + 1

\* the sorted listings with their bundle information
AssignBundles(sorted) ==
    LET p == Pack([i \in 1..Len(sorted) |-> sorted[i].contentSize])
    IN  [i \in 1..Len(sorted) |->
            [sorted[i] EXCEPT !.bundleIndex = p[i].bundleIndex,
                              !.bundleOffset = p[i].bundleOffset]]

\* the concatenation of a sequence of byte strings
RECURSIVE Flatten(_)
Flatten(ss) == IF ss = << >> THEN << >> ELSE Head(ss) \o Flatten(Tail(ss))

\* uncompressedBundleContents[k]: the contents of the listings of bundle k,
\* appended in listing order
UncompressedBundle(listings, k) ==
    Flatten([i \in 1..Len(listings) |->
                IF listings[i].bundleIndex = k THEN listings[i].fileContent ELSE << >>])

\* the compressed bundles, bundle k at position k + 1
BundleData(listings, needed) ==
    [k \in 1..needed |-> Compress(UncompressedBundle(listings, k - 1))]

\* currentOffsetInDataSection never updated
OffsetNeverUpdated(datas, k) == 0

\* currentOffsetInDataSection before bundle k (1-based) is compressed
RECURSIVE OffsetInDataSection(_, _)
OffsetInDataSection(datas, k) ==
    IF k <= 1 THEN 0 ELSE OffsetInDataSection(datas, k - 1) + Len(datas[k - 1])

\* one record of the listing header
ListingRecord(totalLength, bundleIndex, bundleOffset, contentSize, checksum, mode, path) ==
    LE16(totalLength) \o bundleIndex \o bundleOffset \o contentSize \o checksum
        \o << mode >> \o path

\* one record of the bundle header
BundleRecord(offsetInDataSection, compressedSize, uncompressedChecksum) ==
    offsetInDataSection \o compressedSize \o uncompressedChecksum

magicNumber == << 105, 97, 109, 100, 101, 99, 97, 102 >>

\* the body with the bundle header written before the listing header
ArchiveBodyBundlesFirst(listingHeaderSize, listingCount, bundleCount, listingHeaderBuffer, bundleHeaderBuffer, dataSectionBuffer) ==
    listingHeaderSize \o listingCount \o bundleCount
        \o bundleHeaderBuffer \o listingHeaderBuffer \o dataSectionBuffer

\* the archive but for its 16-byte prefix: meta header, listing header,
\* bundle header, data section
ArchiveBody(listingHeaderSize, listingCount, bundleCount, listingHeaderBuffer, bundleHeaderBuffer, dataSectionBuffer) ==
    listingHeaderSize \o listingCount \o bundleCount
        \o listingHeaderBuffer \o bundleHeaderBuffer \o dataSectionBuffer

\* the magic number and the checksum of the body, prepended to it
Prepend(body) == magicNumber \o Hash(body) \o body

\* the bytes Archive returns for the listings gathered by the walk (listings
\* with their bundle information already assigned)
Serialise(listings, needed) ==
    LET datas == BundleData(listings, needed)
        listingHeaderBuffer ==
            Flatten([i \in 1..Len(listings) |->
                ListingRecord(listings[i].totalLength, LE64(listings[i].bundleIndex),
                              LE64(listings[i].bundleOffset), LE64(listings[i].contentSize),
                              listings[i].checksum, listings[i].mode, listings[i].path)])
        bundleHeaderBuffer ==
            Flatten([k \in 1..needed |->
                BundleRecord(LE64(OffsetInDataSection(datas, k)), LE64(Len(datas[k])),
                             Hash(UncompressedBundle(listings, k - 1)))])
    IN  Prepend(ArchiveBody(LE64(Len(listingHeaderBuffer)), LE64(Len(listings)),
                            LE64(needed), listingHeaderBuffer, bundleHeaderBuffer,
                            Flatten(datas)))

\* Archive after the sort: [archive, listings], the listings as the packer
\* leaves them
ArchiveSorted(sorted) ==
    LET ls == AssignBundles(sorted)
    IN  [archive  |-> Serialise(ls, BundlesNeeded([i \in 1..Len(ls) |-> ls[i].contentSize])),
         listings |-> ls]

\* Archive from the sort on: [panic, archive]
ArchiveListings(listings) ==
    LET st == SortListings(listings)
    IN  IF st.panic THEN [panic |-> TRUE, archive |-> << >>]
        ELSE [panic |-> FALSE, archive |-> ArchiveSorted(st.data).archive]

\* the partially constructed listing the walk appends
NewListing(relativePath, mode, fileContent) ==
    [totalLength  |-> TotalLength(relativePath),
     bundleIndex  |-> 0,
     bundleOffset |-> 0,
     contentSize  |-> Len(fileContent),
     checksum     |-> IF mode = ModeNormal \/ mode = ModeExecutable
                          THEN Hash(fileContent) ELSE LE64(0),
     mode         |-> mode,
     path         |-> relativePath,
     fileContent  |-> fileContent]

(***************************************************************************)
(* Paths.  A path string is a byte string; path/filepath works on it       *)
(* lexically.  A parsed path is [abs, comps]: whether it starts with '/',  *)
(* and its components.                                                     *)
(***************************************************************************)
Dot == << 46 >>
DotDot == << 46, 46 >>

\* the positions 0 < p1 < ... of the separators of s, with both ends
SlashPositions(s) == {i \in 1..Len(s) : s[i] = 47} \cup {0, Len(s) + 1}

\* the non-empty components of s that start after position p
RECURSIVE ComponentsAfter(_, _)
ComponentsAfter(s, p) ==
    IF p > Len(s) THEN << >>
    ELSE LET q == CHOOSE k \in SlashPositions(s) :
                      k > p /\ \A j \in SlashPositions(s) : j > p => k <= j
         IN  (IF q > p + 1 THEN << SubSeq(s, p + 1, q - 1) >> ELSE << >>)
                 \o ComponentsAfter(s, q)

Split(s) == [abs |-> Len(s) > 0 /\ s[1] = 47, comps |-> ComponentsAfter(s, 0)]

\* the components joined by '/'
RECURSIVE JoinComps(_)
JoinComps(comps) ==
    IF comps = << >> THEN << >>
    ELSE IF Len(comps) = 1 THEN comps[1]
    ELSE comps[1] \o << 47 >> \o JoinComps(Tail(comps))

\* the string of a cleaned path: "/" and "." stand for no component
PathString(abs, comps) ==
    IF abs THEN << 47 >> \o JoinComps(comps)
    ELSE IF comps = << >> THEN Dot
    ELSE JoinComps(comps)

\* filepath.Clean on components: "." goes, "x/.." goes, ".." at the root
\* goes, leading ".." of a relative path stay
RECURSIVE CleanFrom(_, _, _)
CleanFrom(abs, out, rest) ==
    IF rest = << >> THEN out
    ELSE LET c == Head(rest)
         IN  IF c = Dot THEN CleanFrom(abs, out, Tail(rest))
             ELSE IF c = DotDot
                 THEN IF out # << >> /\ out[Len(out)] # DotDot
                          THEN CleanFrom(abs, SubSeq(out, 1, Len(out) - 1), Tail(rest))
                      ELSE IF abs THEN CleanFrom(abs, out, Tail(rest))
                      ELSE CleanFrom(abs, Append(out, c), Tail(rest))
             ELSE CleanFrom(abs, Append(out, c), Tail(rest))

\* filepath.Clean of a path string, as a path string
Clean(s) == PathString(Split(s).abs, CleanFrom(Split(s).abs, << >>, Split(s).comps))

\* filepath.Join(a, b): the non-empty elements joined by '/', cleaned
Join(a, b) ==
    IF b = << >> THEN Clean(a) ELSE IF a = << >> THEN Clean(b)
    ELSE Clean(a \o << 47 >> \o b)

\* strings.HasPrefix
HasPrefix(s, prefix) ==
    Len(s) >= Len(prefix) /\ SubSeq(s, 1, Len(prefix)) = prefix

\* the path itself in the place of its directory
DirSelf(s) == s

\* filepath.Dir of a cleaned absolute path
Dir(s) ==
    LET c == Split(s).comps
    IN  PathString(TRUE, IF c = << >> THEN c ELSE SubSeq(c, 1, Len(c) - 1))

\* the length of the longest common prefix of two component sequences
CommonLen(a, b) ==
    LET m == Min(Len(a), Len(b))
        D == {i \in 1..m : a[i] # b[i]}
    IN  IF D = {} THEN m ELSE (CHOOSE k \in D : \A j \in D : k <= j) - 1

\* filepath.Rel(base, targ) of two cleaned absolute paths
Rel(base, targ) ==
    LET b == Split(base).comps
        t == Split(targ).comps
        c == CommonLen(b, t)
    IN  PathString(FALSE, [i \in 1..(Len(b) - c) |-> DotDot] \o SubSeq(t, c + 1, Len(t)))

(***************************************************************************)
(* The file system: a function from absolute paths (sequences of names,    *)
(* << >> is the root) to nodes [kind, perm, content], kind one of "dir",   *)
(* "file", "symlink"; the content of a symlink is its raw target.          *)
(***************************************************************************)
NameFas == << 102, 97, 115, 102, 97, 115, 102, 97, 115, 102 >>

Parent(p) == IF p = << >> THEN p ELSE SubSeq(p, 1, Len(p) - 1)

DirNode == [kind |-> "dir", perm |-> 493, content |-> << >>]
FileNode(perm, content) == [kind |-> "file", perm |-> perm, content |-> content]
LinkNode(target) == [kind |-> "symlink", perm |-> 511, content |-> target]

Children(f, d) ==
    {q \in DOMAIN f : Len(q) = Len(d) + 1 /\ SubSeq(q, 1, Len(d)) = d}

\* The kernel's path resolution from directory cur: symbolic links are
\* followed (the last component's only when followLast), at most fuel times.
\* [err, path, final]: err is "" and path the node reached, or err is the
\* errno; final says that only the last component is missing, and path is
\* then where it would be created.
RECURSIVE Resolve(_, _, _, _, _)
Resolve(f, cur, comps, followLast, fuel) ==
    IF comps = << >> THEN [err |-> "", path |-> cur, final |-> FALSE]
    ELSE IF f[cur].kind # "dir" THEN [err |-> "ENOTDIR", path |-> cur, final |-> FALSE]
    ELSE LET c    == Head(comps)
             rest == Tail(comps)
             nxt  == Append(cur, c)
         IN  IF c = Dot THEN Resolve(f, cur, rest, followLast, fuel)
             ELSE IF c = DotDot THEN Resolve(f, Parent(cur), rest, followLast, fuel)
             ELSE IF nxt \notin DOMAIN f
                 THEN [err |-> "ENOENT", path |-> nxt, final |-> rest = << >>]
             ELSE IF f[nxt].kind = "symlink" /\ (rest # << >> \/ followLast)
                 THEN IF fuel = 0 THEN [err |-> "ELOOP", path |-> nxt, final |-> FALSE]
                      ELSE LET tg == Split(f[nxt].content)
                           IN  IF f[nxt].content = << >>
                                   THEN [err |-> "ENOENT", path |-> nxt, final |-> FALSE]
                               ELSE Resolve(f, IF tg.abs THEN << >> ELSE cur,
                                            tg.comps \o rest, followLast, fuel - 1)
             ELSE Resolve(f, nxt, rest, followLast, fuel)

\* os.Stat / open of a path string: every symbolic link is followed
Stat(f, s) == Resolve(f, << >>, Split(s).comps, TRUE, 40)

\* os.Lstat of a path string: the last component is not followed
Lstat(f, s) == Resolve(f, << >>, Split(s).comps, FALSE, 40)

\* the owner's permission bits
OwnerReadable(perm) == (perm \div 256) % 2 = 1
OwnerWritable(perm) == (perm \div 128) % 2 = 1

(***************************************************************************)
(* The walk's callback (Archive, the function handed to filepath.WalkDir)  *)
(* on the entry at absolute path p of the tree below apex (a path string): *)
(* [result, listing], result one of "error" (the callback returns an       *)
(* error, which ends the walk and Archive), "skip" (it returns nil without *)
(* a listing) and "listing" (it appends the listing).                      *)
(***************************************************************************)
NoListing == NewListing(<< >>, ModeNormal, << >>)

\* the switch that classifies the entry: 4 stands for the error return of
\* the directory case, 5 for its return nil
ListingMode(f, p) ==
    LET path == PathString(TRUE, p)
    IN  IF f[p].kind = "dir"
            THEN LET subEntries == Stat(f, path \o << 47 >> \o NameFas)
                 IN  IF subEntries.err # "" \/ f[subEntries.path].kind # "dir" THEN 4
                     ELSE IF Cardinality(Children(f, subEntries.path)) > 1 THEN 5
                     ELSE ModeBareDir
        ELSE IF f[p].kind = "symlink" THEN ModeLink
        ELSE IF ((f[p].perm % 2) * 64) # 0 THEN ModeExecutable
        ELSE ModeNormal

Visit(f, apex, p) ==
    LET path         == PathString(TRUE, p)
        listingMode  == ListingMode(f, p)
        relativePath == Rel(apex, path)
        readLink     == Join(apex, Clean(f[p].content))
        readLinkInfo == Lstat(f, readLink)
    IN  IF listingMode = 4 THEN [result |-> "error", listing |-> NoListing]
        ELSE IF listingMode = 5 THEN [result |-> "skip", listing |-> NoListing]
        ELSE IF listingMode = ModeNormal \/ listingMode = ModeExecutable
            THEN IF ~OwnerReadable(f[p].perm)
                     THEN [result |-> "error", listing |-> NoListing]
                 ELSE [result  |-> "listing",
                       listing |-> NewListing(relativePath, listingMode, f[p].content)]
        ELSE IF listingMode = ModeLink
            THEN IF ~HasPrefix(readLink, apex)
                     THEN [result |-> "skip", listing |-> NoListing]
                 ELSE IF readLinkInfo.err = "ENOENT"
                     THEN [result |-> "skip", listing |-> NoListing]
                 ELSE IF readLinkInfo.err # ""
                     THEN [result |-> "error", listing |-> NoListing]
                 ELSE IF f[readLinkInfo.path].kind = "symlink"
                     THEN [result |-> "skip", listing |-> NoListing]
                 ELSE [result  |-> "listing",
                       listing |-> NewListing(relativePath, ModeLink, Rel(apex, readLink))]
        ELSE [result |-> "listing", listing |-> NewListing(relativePath, ModeBareDir, << >>)]

(***************************************************************************)
(* Unarchive, up to the loop that creates the files: the checks and the    *)
(* parsing.  The archive is a Go slice: buf is its underlying array up to  *)
(* its capacity (Len(buf) = cap(archive)) and n its length.  A slice of it *)
(* is [off, len]: len bytes of buf after the first off, with capacity      *)
(* Len(buf) - off.  A slice expression s[lo:hi] panics unless              *)
(* lo <= hi <= cap(s), s[lo:] unless lo <= len(s), and an index s[i]       *)
(* unless i < len(s); "out of range" stands for these run-time panics.     *)
(***************************************************************************)
SliceCap(buf, s) == Len(buf) - s.off

SliceBytes(buf, s) == SubSeq(buf, s.off + 1, s.off + s.len)

\* whether s[lo:hi] is in range, lo and hi uint64
SliceInRange(lo, hi, cap) == U64Le(lo, hi) /\ U64Le(hi, LE64(cap))

\* the bundle loop from its iteration i (0-based): [status, bundles], the
\* bundles being the decompressed data of each
RECURSIVE ReadBundles(_, _, _, _, _, _)
ReadBundles(buf, bundleHeader, dataSection, bundleCount, i, bundles) ==
    IF ~U64Lt(LE64(i), bundleCount) THEN [status |-> "ok", bundles |-> bundles]
    ELSE IF 24 * i + 24 > SliceCap(buf, bundleHeader)
        THEN [status |-> "out of range", bundles |-> bundles]
    ELSE LET rec  == SubSeq(buf, bundleHeader.off + 24 * i + 1, bundleHeader.off + 24 * i + 24)
             bundleOffsetInDataSection == SubSeq(rec, 1, 8)
             bundleCompressedSize      == SubSeq(rec, 9, 16)
             bundleExpectedChecksum    == SubSeq(rec, 17, 24)
             hi   == U64Add(bundleOffsetInDataSection, bundleCompressedSize)
         IN  IF ~SliceInRange(bundleOffsetInDataSection, hi, SliceCap(buf, dataSection))
                 THEN [status |-> "out of range", bundles |-> bundles]
             ELSE LET bundleData ==
                          Decompress(SubSeq(buf,
                              dataSection.off + U64Nat(bundleOffsetInDataSection) + 1,
                              dataSection.off + U64Nat(hi)))
                  IN  IF ~bundleData.ok
                          THEN [status |-> "failed to decompress bundle", bundles |-> bundles]
                      ELSE IF bundleExpectedChecksum # Hash(bundleData.data)
                          THEN [status |-> "bad bundle checksum", bundles |-> bundles]
                      ELSE ReadBundles(buf, bundleHeader, dataSection, bundleCount, i + 1,
                                       Append(bundles, bundleData.data))

\* the test of a listing's checksum with Normal left out of it
ChecksumMismatchExecutableOnly(listingMode, listingExpectedChecksum, fileContent) ==
    /\ listingMode = ModeExecutable
    /\ listingExpectedChecksum # Hash(fileContent)

\* the test of a listing's checksum with Executable left out of it
ChecksumMismatchNormalOnly(listingMode, listingExpectedChecksum, fileContent) ==
    /\ listingMode = ModeNormal
    /\ listingExpectedChecksum # Hash(fileContent)

\* the test of a listing's checksum against the hash of its content
ChecksumMismatch(listingMode, listingExpectedChecksum, fileContent) ==
    /\ listingMode = ModeNormal \/ listingMode = ModeExecutable
    /\ listingExpectedChecksum # Hash(fileContent)

\* the listing loop from its iteration i (0-based), listingHeader being what
\* is left of the listing header: [status, listings]
RECURSIVE ReadListings(_, _, _, _, _, _)
ReadListings(buf, listingHeader, bundles, listingCount, i, listings) ==
    IF ~U64Lt(LE64(i), listingCount) THEN [status |-> "ok", listings |-> listings]
    ELSE IF SliceCap(buf, listingHeader) < 34 \/ listingHeader.len <= 34
        THEN [status |-> "out of range", listings |-> listings]
    ELSE LET at(lo, hi) == SubSeq(buf, listingHeader.off + lo + 1, listingHeader.off + hi)
             listingLength           == U16(at(0, 2))
             listingBundleIndex      == at(2, 10)
             listingBundleOffset     == at(10, 18)
             listingContentSize      == at(18, 26)
             listingExpectedChecksum == at(26, 34)
             listingMode             == at(34, 35)[1]
             hi == U64Add(listingBundleOffset, listingContentSize)
             hasContent == listingMode = ModeNormal \/ listingMode = ModeExecutable
                               \/ listingMode = ModeLink
         IN  IF listingLength < 35 \/ listingLength > SliceCap(buf, listingHeader)
                    \/ listingLength > listingHeader.len
                 THEN [status |-> "out of range", listings |-> listings]
             ELSE IF hasContent /\ ~U64Lt(listingBundleIndex, LE64(Len(bundles)))
                 THEN [status |-> "out of range", listings |-> listings]
             ELSE IF hasContent /\ ~SliceInRange(listingBundleOffset, hi,
                                       Len(bundles[U64Nat(listingBundleIndex) + 1]))
                 THEN [status |-> "out of range", listings |-> listings]
             ELSE LET fileContent ==
                          IF hasContent
                              THEN SubSeq(bundles[U64Nat(listingBundleIndex) + 1],
                                          U64Nat(listingBundleOffset) + 1, U64Nat(hi))
                              ELSE << >>
                  IN  IF ChecksumMismatch(listingMode, listingExpectedChecksum, fileContent)
                          THEN [status |-> "bad listing checksum", listings |-> listings]
                      ELSE ReadListings(buf,
                               [off |-> listingHeader.off + listingLength,
                                len |-> listingHeader.len - listingLength],
                               bundles, listingCount, i + 1,
                               Append(listings,
                                   [totalLength  |-> listingLength,
                                    bundleIndex  |-> listingBundleIndex,
                                    bundleOffset |-> listingBundleOffset,
                                    contentSize  |-> listingContentSize,
                                    checksum     |-> listingExpectedChecksum,
                                    mode         |-> listingMode,
                                    path         |-> at(35, listingLength),
                                    fileContent  |-> fileContent]))

\* the meta header and the three sections, then the two loops
ReadHeaders(buf, n) ==
    IF Len(buf) < 40 THEN [status |-> "out of range", listings |-> << >>]
    ELSE LET listingHeaderSize == SubSeq(buf, 17, 24)
             listingCount      == SubSeq(buf, 25, 32)
             bundleCount       == SubSeq(buf, 33, 40)
             listingHeaderStartOffset == LE64(40)
             bundleHeaderStartOffset  == U64Add(listingHeaderStartOffset, listingHeaderSize)
             bundleHeaderSize         == U64Mul24(bundleCount)
             dataSectionStartOffset   == U64Add(bundleHeaderStartOffset, bundleHeaderSize)
         IN  IF ~SliceInRange(listingHeaderStartOffset, bundleHeaderStartOffset, Len(buf))
                    \/ ~SliceInRange(bundleHeaderStartOffset, dataSectionStartOffset, Len(buf))
                    \/ ~U64Le(dataSectionStartOffset, LE64(n))
                 THEN [status |-> "out of range", listings |-> << >>]
             ELSE LET bhs == U64Nat(bundleHeaderStartOffset)
                      dss == U64Nat(dataSectionStartOffset)
                      bs  == ReadBundles(buf, [off |-> bhs, len |-> dss - bhs],
                                         [off |-> dss, len |-> n - dss], bundleCount, 0, << >>)
                  IN  IF bs.status # "ok" THEN [status |-> bs.status, listings |-> << >>]
                      ELSE ReadListings(buf, [off |-> 40, len |-> bhs - 40], bs.bundles,
                                        listingCount, 0, << >>)

\* the two checks in the other order
CheckPrefixChecksumFirst(buf, n) ==
    IF Len(buf) < 16 \/ n < 16 THEN "out of range"
    ELSE IF SubSeq(buf, 9, 16) # Hash(SubSeq(buf, 17, n)) THEN "bad archive cksum"
    ELSE IF SubSeq(buf, 1, 8) # magicNumber THEN "bad magic"
    ELSE "ok"

\* the magic number alone
CheckPrefixMagicOnly(buf, n) ==
    IF Len(buf) < 8 THEN "out of range"
    ELSE IF SubSeq(buf, 1, 8) # magicNumber THEN "bad magic"
    ELSE IF Len(buf) < 16 \/ n < 16 THEN "out of range"
    ELSE "ok"

\* the magic number, then the checksum of the archive
CheckPrefix(buf, n) ==
    IF Len(buf) < 8 THEN "out of range"
    ELSE IF SubSeq(buf, 1, 8) # magicNumber THEN "bad magic"
    ELSE IF Len(buf) < 16 \/ n < 16 THEN "out of range"
    ELSE IF SubSeq(buf, 9, 16) # Hash(SubSeq(buf, 17, n)) THEN "bad archive cksum"
    ELSE "ok"

\* Unarchive before it creates anything: [status, listings], status "ok" or
\* the panic
Verify(buf, n) ==
    LET prefix == CheckPrefix(buf, n)
    IN  IF prefix # "ok" THEN [status |-> prefix, listings |-> << >>]
        ELSE ReadHeaders(buf, n)

(***************************************************************************)
(* Unarchive's loop that creates the files: the operating system calls of  *)
(* one listing, on the file system f.  Each returns [ok, fs].              *)
(***************************************************************************)
HasNul(s) == \E i \in 1..Len(s) : s[i] = 0

\* os.Mkdir of the path with components comps
Mkdir(f, comps) ==
    LET pr == Resolve(f, << >>, Parent(comps), TRUE, 40)
        at == Append(pr.path, comps[Len(comps)])
    IN  IF comps = << >> \/ pr.err # "" THEN [ok |-> FALSE, fs |-> f]
        ELSE IF f[pr.path].kind # "dir" THEN [ok |-> FALSE, fs |-> f]
        ELSE IF at \in DOMAIN f THEN [ok |-> FALSE, fs |-> f]
        ELSE [ok |-> TRUE, fs |-> (at :> DirNode) @@ f]

\* os.MkdirAll: nothing to do for a directory, an error for another kind of
\* file; else the parent first, then Mkdir, whose failure is forgiven when
\* the path is a directory after all
RECURSIVE MkdirAllComps(_, _)
MkdirAllComps(f, comps) ==
    LET dir == Resolve(f, << >>, comps, TRUE, 40)
    IN  IF dir.err = "" THEN [ok |-> f[dir.path].kind = "dir", fs |-> f]
        ELSE IF comps = << >> THEN [ok |-> FALSE, fs |-> f]
        ELSE LET up == MkdirAllComps(f, Parent(comps))
             IN  IF ~up.ok THEN up
                 ELSE LET made == Mkdir(up.fs, comps)
                          again == Resolve(up.fs, << >>, comps, FALSE, 40)
                      IN  IF made.ok THEN made
                          ELSE [ok |-> again.err = "" /\ up.fs[again.path].kind = "dir",
                                fs |-> up.fs]

MkdirAll(f, path) ==
    IF HasNul(path) THEN [ok |-> FALSE, fs |-> f]
    ELSE MkdirAllComps(f, Split(path).comps)

\* os.Symlink(targetPath, listingPath)
Symlink(f, targetPath, listingPath) ==
    LET comps == Split(listingPath).comps
        pr    == Resolve(f, << >>, Parent(comps), TRUE, 40)
        at    == Append(pr.path, comps[Len(comps)])
    IN  IF HasNul(listingPath) \/ HasNul(targetPath) \/ targetPath = << >>
            THEN [ok |-> FALSE, fs |-> f]
        ELSE IF comps = << >> \/ pr.err # "" THEN [ok |-> FALSE, fs |-> f]
        ELSE IF f[pr.path].kind # "dir" \/ at \in DOMAIN f THEN [ok |-> FALSE, fs |-> f]
        ELSE [ok |-> TRUE, fs |-> (at :> LinkNode(targetPath)) @@ f]

\* os.Create(listingPath), file.Chmod(unixMode) and file.Write(fileContent):
\* the file is opened through symbolic links, created if missing, truncated
\* if present; a directory, or a file its owner may not write, is an error
CreateFile(f, listingPath, unixMode, fileContent) ==
    LET st == Stat(f, listingPath)
    IN  IF HasNul(listingPath) THEN [ok |-> FALSE, fs |-> f]
        ELSE IF st.err = ""
            THEN IF f[st.path].kind = "file" /\ OwnerWritable(f[st.path].perm)
                     THEN [ok |-> TRUE,
                           fs |-> [f EXCEPT ![st.path] = FileNode(unixMode, fileContent)]]
                     ELSE [ok |-> FALSE, fs |-> f]
        ELSE IF st.err = "ENOENT" /\ st.final
            THEN [ok |-> TRUE, fs |-> (st.path :> FileNode(unixMode, fileContent)) @@ f]
        ELSE [ok |-> FALSE, fs |-> f]

\* the permission bits of fs.FileMode(unixMode)
UnixMode(mode) == IF mode = ModeExecutable THEN 493 ELSE 420

\* one iteration of the loop, for listing l into outputDirectoryPath:
\* [ok, fs, ops], ops being the calls made, in order, each [op, path]
Materialise(f, outputDirectoryPath, l) ==
    LET listingPath       == Join(outputDirectoryPath, l.path)
        listingParentPath == Dir(listingPath)
        parent            == MkdirAll(f, listingParentPath)
        opParent          == [op |-> "MkdirAll", path |-> listingParentPath]
        last ==
            IF l.mode = ModeBareDir
                THEN MkdirAll(parent.fs, listingPath)
            ELSE IF l.mode = ModeLink
                THEN Symlink(parent.fs, l.fileContent, listingPath)
            ELSE CreateFile(parent.fs, listingPath, UnixMode(l.mode), l.fileContent)
        opLast ==
            [op   |-> IF l.mode = ModeBareDir THEN "MkdirAll"
                      ELSE IF l.mode = ModeLink THEN "Symlink" ELSE "Create",
             path |-> listingPath]
    IN  IF ~parent.ok THEN [ok |-> FALSE, fs |-> f, ops |-> << opParent >>]
        ELSE [ok |-> last.ok, fs |-> last.fs, ops |-> << opParent, opLast >>]

(***************************************************************************)
(* The state.  One run of the test suite's pipeline: Archive of the source *)
(* directory /t (run "A"), Archive of it again (run "B", the walk free to  *)
(* enumerate in another order), Unarchive of the first archive into the    *)
(* empty directory /o, and Archive of /o (run "C").                        *)
(***************************************************************************)
VARIABLES
    fs,        \* the file system
    pc,        \* "walk", "sorted", "packed", "archived", "verify", "create", "unarchived", "panicked"
    run,       \* the Archive call in progress or last ended: "A", "B", "C"; "U": none
    todo,      \* the entries the walk has not visited yet
    listings,  \* Archive's listings: as the walk appended them, then as the sort,
               \* then as the packer left them
    res,       \* per run, what Archive returned: [state, archive], state "none", "ok",
               \* "error" (of the walk) or "panic" (of the sort),
               \* and the entries in the order its walk visited them
    buf,       \* the underlying array of the slice handed to Unarchive
    n,         \* the length of that slice
    status,    \* of Unarchive: "none", "ok", or its panic
    parsed,    \* the listings Unarchive parsed
    k,         \* the listing Unarchive's last loop is at (1-based)
    sink,      \* the file system calls Unarchive has made, in order
    input      \* how the slice handed to Unarchive was made

vars == << fs, pc, run, todo, listings, res, buf, n, status, parsed, k, sink, input >>

NameT == << 116 >>
NameO == << 111 >>
SourceDir == PathString(TRUE, << NameT >>)
OutputDir == PathString(TRUE, << NameO >>)

\* inputDirectoryPath of a run
Apex(r) == IF r = "C" THEN OutputDir ELSE SourceDir

\* the entries WalkDir visits from the root comps: the root and all below it
Below(f, comps) ==
    {q \in DOMAIN f : Len(q) >= Len(comps) /\ SubSeq(q, 1, Len(comps)) = comps}

(***************************************************************************)
(* The source trees: the entries below /t are drawn from Candidates, at    *)
(* most MaxEntries of them, no two at one path, a nested one only below a  *)
(* directory of the tree.                                                  *)
(***************************************************************************)
NameA == << 97 >>
NameB == << 98 >>
NameBB == << 98, 98 >>
NameD == << 100 >>
NameF == << 102 >>
NameL == << 108 >>
NameTX == << 116, 120 >>

Candidates ==
    { [path |-> << NameFas >>,        node |-> LinkNode(Dot)],
      [path |-> << NameFas >>,        node |-> LinkNode(NameD)],
      [path |-> << NameA >>,          node |-> FileNode(420, << >>)],
      [path |-> << NameA >>,          node |-> FileNode(420, << 120 >>)],
      [path |-> << NameA >>,          node |-> FileNode(493, << 120 >>)],
      [path |-> << NameB >>,          node |-> FileNode(420, << 121 >>)],
      [path |-> << NameBB >>,         node |-> FileNode(420, << 120 >>)],
      [path |-> << NameD >>,          node |-> DirNode],
      [path |-> << NameD, NameF >>,   node |-> FileNode(420, << 122 >>)],
      [path |-> << NameD, NameFas >>, node |-> LinkNode(DotDot)],
      [path |-> << NameD, NameFas >>, node |-> LinkNode(Dot)],
      [path |-> << NameL >>,          node |-> LinkNode(NameA)],
      [path |-> << NameL >>,          node |-> LinkNode(DotDot \o << 47 >> \o NameTX)] }

IsTree(S) ==
    /\ Cardinality(S) <= MaxEntries
    /\ \A e1, e2 \in S : e1.path = e2.path => e1 = e2
    /\ \A e \in S : Len(e.path) > 1 =>
           \E d \in S : d.path = Parent(e.path) /\ d.node.kind = "dir"

Trees == {S \in SUBSET Candidates : IsTree(S)}

\* the world around a tree: the root, the source directory /t with the
\* tree, the empty output directory /o, and a file /tx beside them
World(S) ==
    [p \in {<< >>, << NameT >>, << NameO >>, << NameTX >>}
            \cup {<< NameT >> \o e.path : e \in S} |->
        IF p = << NameTX >> THEN FileNode(420, << 119 >>)
        ELSE IF Len(p) <= 1 THEN DirNode
        ELSE (CHOOSE e \in S : << NameT >> \o e.path = p).node]

NoResult == [state |-> "none", archive |-> << >>, order |-> << >>]

NoInput == [base |-> 0, len |-> 0, pos |-> 0, val |-> 0,
            sealed |-> TRUE, magic |-> 0, slack |-> 0]

Init ==
    /\ fs \in {World(S) : S \in Trees}
    /\ pc = "walk"
    /\ run = "A"
    /\ todo = Below(fs, << NameT >>)
    /\ listings = << >>
    /\ res = [r \in {"A", "B", "C"} |-> NoResult]
    /\ buf = << >>
    /\ n = 0
    /\ status = "none"
    /\ parsed = << >>
    /\ k = 1
    /\ sink = << >>
    /\ input = NoInput

(***************************************************************************)
(* Archive.                                                                *)
(***************************************************************************)
\* WalkDir calls the callback on an entry whose directory it has visited;
\* an error of the callback ends the walk, and Archive returns it
WalkStep ==
    /\ pc = "walk"
    /\ \E p \in todo :
        /\ Parent(p) \notin todo
        /\ LET v == Visit(fs, Apex(run), p)
           IN  IF v.result = "error"
                   THEN /\ res' = [res EXCEPT ![run] = [NoResult EXCEPT !.state = "error"]]
                        /\ pc' = "archived"
                        /\ todo' = {}
                        /\ listings' = << >>
                   ELSE /\ todo' = todo \ {p}
                        /\ listings' = IF v.result = "listing"
                                           THEN Append(listings, v.listing) ELSE listings
                        /\ res' = [res EXCEPT ![run].order = Append(@, p)]
                        /\ pc' = pc
    /\ UNCHANGED << fs, run, buf, n, status, parsed, k, sink, input >>

\* the walk is over: slices.SortFunc sorts the listings in place, or panics
ArchiveSort ==
    /\ pc = "walk"
    /\ todo = {}
    /\ LET st == SortListings(listings)
       IN  IF st.panic
               THEN /\ res' = [res EXCEPT ![run].state = "panic"]
                    /\ pc' = "archived"
                    /\ listings' = listings
               ELSE /\ listings' = st.data
                    /\ pc' = "sorted"
                    /\ res' = res
    /\ UNCHANGED << fs, run, todo, buf, n, status, parsed, k, sink, input >>

\* the packer's loop: every listing gets its bundle index and offset
ArchivePack ==
    /\ pc = "sorted"
    /\ listings' = AssignBundles(listings)
    /\ pc' = "packed"
    /\ UNCHANGED << fs, run, todo, res, buf, n, status, parsed, k, sink, input >>

\* the rest of Archive: fill and compress the bundles, serialise, return
ArchiveFinish ==
    /\ pc = "packed"
    /\ res' = [res EXCEPT ![run].state = "ok",
                          ![run].archive =
                              Serialise(listings,
                                  BundlesNeeded([i \in 1..Len(listings) |->
                                                    listings[i].contentSize]))]
    /\ pc' = "archived"
    /\ UNCHANGED << fs, run, todo, listings, buf, n, status, parsed, k, sink, input >>

\* Archive is called on the same directory again
ArchiveAgain ==
    /\ pc = "archived"
    /\ run = "A"
    /\ run' = "B"
    /\ pc' = "walk"
    /\ todo' = Below(fs, << NameT >>)
    /\ listings' = << >>
    /\ UNCHANGED << fs, res, buf, n, status, parsed, k, sink, input >>

(***************************************************************************)
(* Unarchive.                                                              *)
(***************************************************************************)
Zeros(m) == [i \in 1..m |-> 0]

\* the archive Archive returned is handed to Unarchive; the slice may have
\* spare capacity, which Go has zeroed
UnarchiveCall ==
    /\ pc = "archived"
    /\ run = "B"
    /\ res["A"].state = "ok"
    /\ \E slack \in 0..MaxSlack : buf' = res["A"].archive \o Zeros(slack)
    /\ n' = Len(res["A"].archive)
    /\ pc' = "verify"
    /\ UNCHANGED << fs, run, todo, listings, res, status, parsed, k, sink, input >>

\* the checks and the parsing, up to the loop that creates the files
UnarchiveVerify ==
    /\ pc = "verify"
    /\ LET v == Verify(buf, n)
       IN  /\ status' = IF v.status = "ok" THEN "none" ELSE v.status
           /\ parsed' = v.listings
           /\ pc' = IF v.status = "ok" THEN "create" ELSE "panicked"
    /\ UNCHANGED << fs, run, todo, listings, res, buf, n, k, sink, input >>

\* one iteration of the loop that creates the files; a failed call panics
UnarchiveCreate ==
    /\ pc = "create"
    /\ k <= Len(parsed)
    /\ LET m == Materialise(fs, OutputDir, parsed[k])
       IN  /\ fs' = m.fs
           /\ sink' = sink \o m.ops
           /\ IF m.ok
                  THEN k' = k + 1 /\ UNCHANGED << pc, status >>
                  ELSE pc' = "panicked" /\ status' = "sink error" /\ k' = k
    /\ UNCHANGED << run, todo, listings, res, buf, n, parsed, input >>

\* the loop is over: Unarchive returns nil
UnarchiveReturn ==
    /\ pc = "create"
    /\ k > Len(parsed)
    /\ pc' = "unarchived"
    /\ status' = "ok"
    /\ UNCHANGED << fs, run, todo, listings, res, buf, n, parsed, k, sink, input >>

\* Archive is called on the output directory
ArchiveOutput ==
    /\ pc = "unarchived"
    /\ run = "B"
    /\ run' = "C"
    /\ pc' = "walk"
    /\ todo' = Below(fs, << NameO >>)
    /\ listings' = << >>
    /\ UNCHANGED << fs, res, buf, n, status, parsed, k, sink, input >>

Next ==
    \/ WalkStep
    \/ ArchiveSort
    \/ ArchivePack
    \/ ArchiveFinish
    \/ ArchiveAgain
    \/ UnarchiveCall
    \/ UnarchiveVerify
    \/ UnarchiveCreate
    \/ UnarchiveReturn
    \/ ArchiveOutput

Spec == Init /\ [][Next]_vars

(***************************************************************************)
(* Properties of the pipeline.                                             *)
(***************************************************************************)
\* what is below the directory root, by path relative to it
Entries(f, root) ==
    [q \in {SubSeq(p, Len(root) + 1, Len(p)) : p \in Below(f, root) \ {root}} |->
        f[root \o q]]

\* the link at p points at a file or directory that exists inside the apex
LinkInApex(f, root, p) ==
    LET readLink == Join(PathString(TRUE, root), Clean(f[p].content))
        info     == Lstat(f, readLink)
    IN  /\ HasPrefix(readLink \o << 47 >>, PathString(TRUE, root) \o << 47 >>)
        /\ info.err = ""
        /\ f[info.path].kind # "symlink"

\* every entry of the source tree is a file of permission 0644 or 0755, a
\* directory, or a link into the apex
Recognised(f) ==
    \A p \in Below(f, << NameT >>) \ {<< NameT >>} :
        \/ f[p].kind = "file" /\ f[p].perm \in {420, 493}
        \/ f[p].kind = "dir"
        \/ f[p].kind = "symlink" /\ LinkInApex(f, << NameT >>, p)

\* C1 (determinism): two runs of Archive over the same tree return the same
\* result, byte for byte, whatever the orders in which their walks
\* enumerated the entries.
Determinism ==
    (pc = "archived" /\ run = "B") => res["A"].archive = res["B"].archive
                                      /\ res["A"].state = res["B"].state

\* two runs ended with an archive of several listings, their walks having
\* visited the entries in different orders
DeterminismWitness ==
    /\ pc = "archived"
    /\ run = "B"
    /\ res["A"].state = "ok"
    /\ res["B"].state = "ok"
    /\ Len(listings) >= 2
    /\ res["A"].order # res["B"].order

\* C2 (round trip): for a tree of recognised entries, Archive returns an
\* archive and Unarchive of it leaves in the output directory exactly the
\* entries of the tree: same paths, kinds, contents and permissions.
RoundTrip ==
    Recognised(fs) =>
        /\ (pc = "archived" /\ run = "A") => res["A"].state = "ok"
        /\ pc = "unarchived" => Entries(fs, << NameO >>) = Entries(fs, << NameT >>)

\* C3 (idempotence): archiving the extracted tree gives the archive that
\* was extracted, byte for byte.
Idempotence ==
    (pc = "archived" /\ run = "C") =>
        res["C"].state = "ok" /\ res["C"].archive = res["A"].archive

\* C4 (Archive then Unarchive succeeds): for a tree whose entries can all
\* be stat'ed and read, Archive returns an archive and no error, and
\* Unarchive of that archive ends with no error.
ArchiveUnarchiveSucceeds ==
    Recognised(fs) =>
        /\ (pc = "archived" /\ run = "A") => res["A"].state = "ok"
        /\ pc # "panicked"
        /\ run = "C" => status = "ok"
        /\ (pc = "archived" /\ run = "B") => ENABLED UnarchiveCall

(***************************************************************************)
(* Unarchive of inputs made by hand.  An input is the archive of a base    *)
(* list of listings, intact or changed: cut to a shorter length, one byte  *)
(* after the checksum or of the checksum replaced, the checksum computed   *)
(* again or not, a byte of the magic number incremented or not; the slice  *)
(* has slack bytes of spare capacity, zeroed.                              *)
(***************************************************************************)
MaxCut == 2

BaseListings ==
    << << NewListing(NameBB, ModeNormal, << 120, 121 >>),
          NewListing(NameA, ModeExecutable, << 120 >>) >>,
       << >>,
       << NewListing(NameA, ModeNormal, << 104, 105 >>) >>,
       << NewListing(NameA, ModeNormal, << >>),
          NewListing(NameL, ModeLink, NameA),
          NewListing(NameD, ModeBareDir, << >>) >> >>

\* the values a byte is replaced by
Values(old) == {0, 4, 32, 255, (old + 1) % 256} \ {old}

\* the lengths an archive of length len is cut to
CutLengths(len) == {0, 7, 8, 15, 16, 39} \cup {len - j : j \in 1..MaxCut}

Reseal(a) == SubSeq(a, 1, 8) \o Hash(SubSeq(a, 17, Len(a))) \o SubSeq(a, 17, Len(a))

\* the inputs made of the archive a of base list b: base is b, len the
\* length a is cut to, pos the byte replaced (1-based, 0: none) and val its
\* value, sealed whether the checksum is computed again, magic the byte of
\* the magic number incremented (0: none), slack the spare capacity
InputsOf(b, a) ==
    LET Of(len, pos, val, sealed, magic, slack) ==
            [base |-> b, len |-> len, pos |-> pos, val |-> val,
             sealed |-> sealed, magic |-> magic, slack |-> slack]
    IN  {Of(len, 0, 0, TRUE, 0, slack) :
             len \in CutLengths(Len(a)) \cup {Len(a)}, slack \in 0..MaxSlack}
        \cup UNION {UNION {{Of(Len(a), pos, val, sealed, magic, slack) :
                                sealed \in IF pos > 16 THEN BOOLEAN ELSE {FALSE},
                                magic \in IF val = (a[pos] + 1) % 256 THEN {0, 1, 8} ELSE {0},
                                slack \in 0..MaxSlack} :
                           val \in Values(a[pos])} :
                    pos \in 9..Len(a)}

\* the bytes of the input in made of the archive a
InputBytes(a, in) ==
    LET a1 == SubSeq(a, 1, in.len)
        a2 == IF in.pos > 0 THEN [a1 EXCEPT ![in.pos] = in.val] ELSE a1
        a3 == IF in.sealed /\ Len(a2) >= 16 THEN Reseal(a2) ELSE a2
    IN  IF in.magic > 0 THEN [a3 EXCEPT ![in.magic] = (a3[in.magic] + 1) % 256] ELSE a3

InitU ==
    /\ \E b \in DOMAIN BaseListings :
         \E a \in {ArchiveListings(BaseListings[b]).archive} :
           \E in \in InputsOf(b, a) :
             \E bytes \in {InputBytes(a, in)} :
               /\ input = in
               /\ buf = bytes \o Zeros(in.slack)
               /\ n = Len(bytes)
    /\ fs = World({})
    /\ pc = "verify"
    /\ run = "U"
    /\ todo = {}
    /\ listings = << >>
    /\ res = [r \in {"A", "B", "C"} |-> NoResult]
    /\ status = "none"
    /\ parsed = << >>
    /\ k = 1
    /\ sink = << >>

NextU ==
    \/ UnarchiveVerify
    \/ UnarchiveCreate
    \/ UnarchiveReturn

SpecU == InitU /\ [][NextU]_vars

(***************************************************************************)
(* Properties of Unarchive.                                                *)
(***************************************************************************)
\* Unarchive's checks have run
Verified == pc # "verify"

\* Unarchive has failed, and has made no file system call
Rejected == pc = "panicked" /\ sink = << >>

\* the input has the magic number and the checksum of its bytes
WellSealed == input.sealed /\ input.magic = 0 /\ input.len >= 16

\* the listing records of the base archive b, in the order of the archive
Records(b) == SortListings(BaseListings[b]).data

\* the offset in the archive of the i-th listing record
RECURSIVE RecordStart(_, _)
RecordStart(records, i) ==
    IF i = 1 THEN 40 ELSE RecordStart(records, i - 1) + records[i - 1].totalLength

\* the positions (1-based) of the mode bytes of the base archive b
ModePositions(b) ==
    {RecordStart(Records(b), i) + 35 : i \in 1..Len(Records(b))}

\* the positions (1-based) of the checksum bytes of the listings of b with
\* a mode in modes
ChecksumPositions(b, modes) ==
    UNION {{RecordStart(Records(b), i) + 26 + j : j \in 1..8} :
               i \in {h \in 1..Len(Records(b)) : Records(b)[h].mode \in modes}}

\* C5 (checksum layering): after the change of one byte at offset 16 or
\* more of a valid archive, nothing else changed, Unarchive fails with the
\* archive, bundle or content checksum error, the out-of-range error or the
\* decompression error, and makes no file system call; it never succeeds.
ChecksumLayering ==
    (Verified /\ input.pos > 16 /\ ~input.sealed /\ input.magic = 0) =>
        /\ Rejected
        /\ status \in {"bad archive cksum", "bad bundle checksum", "bad listing checksum",
                       "out of range", "failed to decompress bundle"}

\* a byte of the listing header was changed, and Unarchive has failed on
\* the checksum of the archive
ChecksumLayeringWitness ==
    /\ pc = "panicked"
    /\ input.pos > 40
    /\ input.pos \in ModePositions(input.base)
    /\ ~input.sealed
    /\ input.magic = 0
    /\ status = "bad archive cksum"

\* C7 (order of the checks): an input whose first 8 bytes are not the magic
\* number fails with "bad magic" whatever follows; an input with the magic
\* number whose stored checksum is not the hash of bytes 16 to the end fails
\* with "bad archive cksum", its header fields well-formed or not.
CheckOrder ==
    Verified =>
        /\ input.magic > 0 => status = "bad magic" /\ Rejected
        /\ (input.magic = 0 /\ input.pos > 0 /\ ~input.sealed) =>
               status = "bad archive cksum" /\ Rejected

\* an input with a wrong magic number, a wrong checksum and a changed
\* byte 17 (the listing header size) has failed on the magic number
CheckOrderWitness ==
    /\ pc = "panicked"
    /\ input.magic > 0
    /\ ~input.sealed
    /\ input.pos = 17
    /\ status = "bad magic"

\* C8 (bad mode): an archive with the magic number and the right checksum
\* and a listing record whose mode byte is above 3 is rejected, and nothing
\* is created.
BadModeRejected ==
    (Verified /\ WellSealed /\ input.pos \in ModePositions(input.base) /\ input.val > 3) =>
        Rejected

\* the extents of the first n bytes of buf, as true integers, do not fit:
\* x is above the natural m
Above(x, m) == U64Lt(LE64(m), x)

\* the uncompressed size of the bundle in arch[lo + 1 .. hi], -1 if it does
\* not decompress
BundleSize(arch, lo, hi) ==
    LET d == Decompress(SubSeq(arch, lo + 1, hi))
    IN  IF d.ok THEN Len(d.data) ELSE -1

\* some of the count listing records from offset c of the listing header,
\* which ends at offset last, runs past it, or names content outside its
\* bundle; sizes are the uncompressed sizes of the bundles
RECURSIVE ListingExceeds(_, _, _, _, _)
ListingExceeds(arch, c, last, count, sizes) ==
    IF count = 0 THEN FALSE
    ELSE IF c + 35 > last THEN TRUE
    ELSE LET totalLength  == U16(SubSeq(arch, c + 1, c + 2))
             bundleIndex  == SubSeq(arch, c + 3, c + 10)
             bundleOffset == SubSeq(arch, c + 11, c + 18)
             contentSize  == SubSeq(arch, c + 19, c + 26)
             mode         == arch[c + 35]
             size         == sizes[U64Nat(bundleIndex) + 1]
         IN  IF totalLength < 35 \/ c + totalLength > last THEN TRUE
             ELSE IF mode \in {ModeNormal, ModeExecutable, ModeLink}
                        /\ (\/ ~U64Lt(bundleIndex, LE64(Len(sizes)))
                            \/ /\ size >= 0
                               /\ \/ Above(bundleOffset, size)
                                  \/ Above(contentSize, size)
                                  \/ U64Nat(bundleOffset) + U64Nat(contentSize) > size)
                 THEN TRUE
             ELSE ListingExceeds(arch, c + totalLength, last, count - 1, sizes)

Exceeds(arch) ==
    LET len               == Len(arch)
        listingHeaderSize == SubSeq(arch, 17, 24)
        listingCount      == SubSeq(arch, 25, 32)
        bundleCount       == SubSeq(arch, 33, 40)
    IN  IF len < 40 THEN TRUE
        ELSE IF Above(listingHeaderSize, len) \/ Above(listingCount, len)
                   \/ Above(bundleCount, len) THEN TRUE
        ELSE LET bundleHeaderStart == 40 + U64Nat(listingHeaderSize)
                 dataSectionStart  == bundleHeaderStart + 24 * U64Nat(bundleCount)
                 Offset(i) == SubSeq(arch, bundleHeaderStart + 24 * i + 1,
                                     bundleHeaderStart + 24 * i + 8)
                 Size(i)   == SubSeq(arch, bundleHeaderStart + 24 * i + 9,
                                     bundleHeaderStart + 24 * i + 16)
                 Past(i)   == \/ Above(Offset(i), len)
                              \/ Above(Size(i), len)
                              \/ dataSectionStart + U64Nat(Offset(i)) + U64Nat(Size(i)) > len
             IN  IF dataSectionStart > len THEN TRUE
                 ELSE IF \E i \in 0..(U64Nat(bundleCount) - 1) : Past(i) THEN TRUE
                 ELSE ListingExceeds(arch, 40, bundleHeaderStart, U64Nat(listingCount),
                          [i \in 1..U64Nat(bundleCount) |->
                              BundleSize(arch,
                                         dataSectionStart + U64Nat(Offset(i - 1)),
                                         dataSectionStart + U64Nat(Offset(i - 1))
                                             + U64Nat(Size(i - 1)))])

\* C9 (truncated): an input with the magic number and the right checksum
\* of which a section, a bundle, a listing record or a listing's content
\* runs past the bytes there are, the sums taken as true integers, is
\* rejected and nothing is created; so is an input of less than 40 bytes.
TruncatedRejected ==
    (Verified /\ (WellSealed \/ n < 40) /\ Exceeds(SubSeq(buf, 1, n))) => Rejected

\* C10 (content checksums): a Normal or Executable listing whose checksum
\* field is not the hash of its content makes Unarchive fail with "bad
\* listing checksum"; a Link listing is accepted whatever its checksum
\* field holds.
ContentChecksums ==
    (Verified /\ WellSealed /\ input.len = n) =>
        /\ input.pos \in ChecksumPositions(input.base, {ModeNormal, ModeExecutable}) =>
               status = "bad listing checksum" /\ Rejected
        /\ input.pos \in ChecksumPositions(input.base, {ModeLink}) =>
               pc # "panicked"

\* the checksum field of an Executable listing was changed, and Unarchive
\* has failed on it
ContentChecksumsWitness ==
    /\ pc = "panicked"
    /\ WellSealed
    /\ input.pos \in ChecksumPositions(input.base, {ModeExecutable})
    /\ status = "bad listing checksum"

(***************************************************************************)
(* Archive from the end of its walk, on listings with paths of any length  *)
(* a listing record is meant to hold.  The walk has appended, in some      *)
(* order, some of the listings of SortCandidates.                          *)
(***************************************************************************)
LongLen == 65536 - 35
MaxListings == 3

\* a path of LongLen bytes, of components of 255 bytes
LongPath == [i \in 1..LongLen |-> IF i % 256 = 0 THEN 47 ELSE 97]

SortCandidates ==
    { NewListing(NameA, ModeNormal, << 120 >>),
      NewListing(NameBB, ModeNormal, << 120 >>),
      NewListing(NameB, ModeNormal, << >>),
      NewListing(NameD, ModeBareDir, << >>),
      NewListing(LongPath, ModeNormal, << 120 >>) }

\* the sequences of at most m different elements of S
RECURSIVE Arrangements(_, _)
Arrangements(S, m) ==
    IF m = 0 THEN {<< >>}
    ELSE LET shorter == Arrangements(S, m - 1)
         IN  shorter \cup {Append(q, e) : q \in shorter, e \in S}

InitSort ==
    /\ listings \in {q \in Arrangements(SortCandidates, MaxListings) :
                        \A i, j \in 1..Len(q) : i # j => q[i] # q[j]}
    /\ fs = World({})
    /\ pc = "walk"
    /\ run = "A"
    /\ todo = {}
    /\ res = [r \in {"A", "B", "C"} |-> NoResult]
    /\ buf = << >>
    /\ n = 0
    /\ status = "none"
    /\ parsed = << >>
    /\ k = 1
    /\ sink = << >>
    /\ input = NoInput

NextSort ==
    \/ ArchiveSort
    \/ ArchivePack
    \/ ArchiveFinish

SpecSort == InitSort /\ [][NextSort]_vars

\* a comes before b in the order of (content size, path length, path bytes)
Before(a, b) ==
    \/ a.contentSize < b.contentSize
    \/ a.contentSize = b.contentSize /\ Len(a.path) < Len(b.path)
    \/ a.contentSize = b.contentSize /\ Len(a.path) = Len(b.path)
           /\ StringsCompare(a.path, b.path) < 0

\* C6 (canonical order): the sort does not panic on listings of different
\* paths, and the listing records of the archive are strictly ascending in
\* (content size, path length in bytes, path bytes).
CanonicalOrder ==
    /\ res[run].state # "panic"
    /\ (pc = "sorted" \/ (pc = "archived" /\ res[run].state = "ok")) =>
           \A i, j \in 1..Len(listings) : i < j => Before(listings[i], listings[j])

(***************************************************************************)
(* Unarchive of archives another writer made: the magic number and all the *)
(* checksums are right, the listing paths are whatever that writer chose.  *)
(* The archive holds, in canonical order, some of the listings of          *)
(* ExtractCandidates; `listings` keeps them.                               *)
(***************************************************************************)
MaxExtract == 3

Slash == << 47 >>

ExtractCandidates ==
    { NewListing(NameA, ModeNormal, << 120 >>),
      NewListing(DotDot \o Slash \o NameA, ModeNormal, << 120 >>),
      NewListing(Slash \o NameA, ModeNormal, << 121 >>),
      NewListing(NameD \o Slash \o NameF, ModeExecutable, << 120, 121 >>),
      NewListing(DotDot \o Slash \o NameD, ModeBareDir, << >>),
      NewListing(NameL, ModeLink, DotDot),
      NewListing(NameL \o Slash \o NameB, ModeNormal, << 122 >>),
      NewListing(NameD, ModeBareDir, << >>) }

InitX ==
    /\ listings \in {q \in Arrangements(ExtractCandidates, MaxExtract) :
                        /\ \A i, j \in 1..Len(q) : i # j => q[i].path # q[j].path
                        /\ SortListings(q).data = q}
    /\ \E a \in {ArchiveListings(listings).archive} :
         /\ buf = a
         /\ n = Len(a)
         /\ input = [NoInput EXCEPT !.len = Len(a)]
    /\ fs = World({})
    /\ pc = "verify"
    /\ run = "U"
    /\ todo = {}
    /\ res = [r \in {"A", "B", "C"} |-> NoResult]
    /\ status = "none"
    /\ parsed = << >>
    /\ k = 1
    /\ sink = << >>

SpecX == InitX /\ [][NextU]_vars

\* the path is absolute or has a ".." component
Escaping(path) ==
    Split(path).abs \/ \E i \in 1..Len(Split(path).comps) : Split(path).comps[i] = DotDot

\* C11 (extraction stays inside the output directory): an archive with the
\* magic number and the right checksums and a listing whose path is
\* absolute or has a ".." component is rejected, nothing created; and
\* whatever Unarchive creates or changes is below the output directory.
StaysInside ==
    /\ (Verified /\ \E i \in 1..Len(listings) : Escaping(listings[i].path)) => Rejected
    /\ \A p \in DOMAIN fs :
           p \notin Below(fs, << NameO >>) =>
               p \in DOMAIN World({}) /\ fs[p] = World({})[p]

(***************************************************************************)
(* Properties of Archive's result.                                         *)
(***************************************************************************)
\* C12 (empty tree): Archive of an apex directory with no entries returns
\* an archive whose meta header holds listing_header_size = 0,
\* listing_count = 0 and bundle_count = 0, with nothing after it; and
\* Unarchive of that archive makes no file system call for a listing.
EmptyTree ==
    Children(fs, << NameT >>) = {} =>
        /\ (pc = "archived" /\ run = "A") =>
               /\ res["A"].state = "ok"
               /\ Len(res["A"].archive) = 40
               /\ SubSeq(res["A"].archive, 17, 40) = Zeros(24)
        /\ (pc \in {"create", "unarchived", "panicked"}) => sink = << >>

(***************************************************************************)
(* One call of Archive on a source tree of any kind of entry: files of     *)
(* several permissions, directories, links with relative and absolute      *)
(* targets, inside and outside the apex.                                   *)
(***************************************************************************)
NameE == << 101 >>

WalkCandidates ==
    { [path |-> << NameFas >>,        node |-> LinkNode(Dot)],
      [path |-> << NameFas >>,        node |-> LinkNode(SourceDir)],
      [path |-> << NameA >>,          node |-> FileNode(420, << 120 >>)],
      [path |-> << NameA >>,          node |-> FileNode(493, << 120 >>)],
      [path |-> << NameA >>,          node |-> FileNode(484, << 120 >>)],
      [path |-> << NameA >>,          node |-> FileNode(421, << 120 >>)],
      [path |-> << NameA >>,          node |-> FileNode(164, << 120 >>)],
      [path |-> << NameA >>,          node |-> FileNode(292, << 120 >>)],
      [path |-> << NameB >>,          node |-> FileNode(420, << >>)],
      [path |-> << NameD >>,          node |-> DirNode],
      [path |-> << NameD, NameF >>,   node |-> FileNode(420, << 122 >>)],
      [path |-> << NameD, NameFas >>, node |-> LinkNode(DotDot)],
      [path |-> << NameD, NameFas >>, node |-> LinkNode(Dot)],
      [path |-> << NameE >>,          node |-> DirNode],
      [path |-> << NameL >>,          node |-> LinkNode(NameA)],
      [path |-> << NameL >>,          node |-> LinkNode(DotDot \o Slash \o NameTX)],
      [path |-> << NameL >>,          node |-> LinkNode(DotDot \o Slash \o NameO)],
      [path |-> << NameL >>,          node |-> LinkNode(OutputDir)] }

InitW ==
    /\ fs \in {World(S) : S \in {T \in SUBSET WalkCandidates : IsTree(T)}}
    /\ pc = "walk"
    /\ run = "A"
    /\ todo = Below(fs, << NameT >>)
    /\ listings = << >>
    /\ res = [r \in {"A", "B", "C"} |-> NoResult]
    /\ buf = << >>
    /\ n = 0
    /\ status = "none"
    /\ parsed = << >>
    /\ k = 1
    /\ sink = << >>
    /\ input = NoInput

NextW ==
    \/ WalkStep
    \/ ArchiveSort
    \/ ArchivePack
    \/ ArchiveFinish

SpecW == InitW /\ [][NextW]_vars

\* Archive has returned an archive
Archived == pc = "archived" /\ res[run].state = "ok"

\* the bundle records of the archive Archive returned
BundleCount == U64Nat(SubSeq(res[run].archive, 33, 40))
BundleHeaderStart == 40 + U64Nat(SubSeq(res[run].archive, 17, 24))
BundleChecksum(b) ==
    SubSeq(res[run].archive, BundleHeaderStart + 24 * b + 17, BundleHeaderStart + 24 * b + 24)

\* C13 (no empty or unreferenced bundle): in an archive of at least one
\* listing the first listing has bundle_index 0, the index rises by 0 or 1
\* from a listing to the next, and bundle_count is the last index plus 1;
\* the archive of a single file has one bundle, whose checksum is the hash
\* of the file's bytes.
NoEmptyBundle ==
    (Archived /\ Len(listings) >= 1) =>
        /\ listings[1].bundleIndex = 0
        /\ \A i \in 1..(Len(listings) - 1) :
               listings[i + 1].bundleIndex - listings[i].bundleIndex \in {0, 1}
        /\ BundleCount = listings[Len(listings)].bundleIndex + 1
        /\ (Len(listings) = 1 /\ listings[1].mode \in {ModeNormal, ModeExecutable}) =>
               BundleCount = 1 /\ BundleChecksum(0) = Hash(listings[1].fileContent)

\* the entries of the source tree, the apex left out
Walked == Below(fs, << NameT >>) \ {<< NameT >>}

\* the listings Archive made for the entry at p
ListingsOf(p) ==
    {i \in 1..Len(listings) : listings[i].path = Rel(SourceDir, PathString(TRUE, p))}

\* C14 (directory classification): a directory below the apex has a
\* listing, a BareDirectory listing of no content, exactly when it has no
\* children; the tree {d/, d/f} is archived as the single listing d/f.
DirectoryClassification ==
    /\ Archived =>
           \A p \in Walked : fs[p].kind = "dir" =>
               /\ (ListingsOf(p) # {}) <=> (Children(fs, p) = {})
               /\ \A i \in ListingsOf(p) :
                      listings[i].mode = ModeBareDir /\ listings[i].contentSize = 0
    /\ (pc = "archived" /\ Walked = {<< NameT, NameD >>, << NameT, NameD, NameF >>}) =>
           /\ res[run].state = "ok"
           /\ Len(listings) = 1
           /\ listings[1].path = NameD \o Slash \o NameF

OwnerExecutable(perm) == (perm \div 64) % 2 = 1

\* C15 (executable classification): the listing of a regular file has mode
\* Executable if the owner may execute the file and mode Normal if not,
\* whatever the other permission bits are.
ExecutableClassification ==
    Archived =>
        \A p \in Walked : fs[p].kind = "file" =>
            \A i \in ListingsOf(p) :
                listings[i].mode =
                    IF OwnerExecutable(fs[p].perm) THEN ModeExecutable ELSE ModeNormal

\* the file system without the entries of P
Without(f, P) == [p \in DOMAIN f \ P |-> f[p]]

\* the elements of a set, in some order
RECURSIVE SeqOf(_)
SeqOf(S) == IF S = {} THEN << >> ELSE LET x == CHOOSE y \in S : TRUE
                                      IN  << x >> \o SeqOf(S \ {x})

\* what Archive returns for the tree below /t of the file system f: the
\* callback runs on every entry; an error of it is the error of Archive
ArchiveOf(f) ==
    LET visits == {Visit(f, SourceDir, p) : p \in Below(f, << NameT >>)}
        made   == {v.listing : v \in {w \in visits : w.result = "listing"}}
    IN  IF \E v \in visits : v.result = "error"
            THEN [state |-> "error", archive |-> << >>]
            ELSE [state |-> "ok", archive |-> ArchiveListings(SeqOf(made)).archive]

\* the regular files their owner may not read or may not write
Skipped ==
    {p \in Walked : fs[p].kind = "file"
                       /\ (~OwnerReadable(fs[p].perm) \/ ~OwnerWritable(fs[p].perm))}

\* C16 (unreadable and unwritable files are skipped): a regular file its
\* owner may not read or may not write gets no listing and raises no
\* error: Archive returns what it returns for the tree without that file.
SkipsUnreadable ==
    pc = "archived" =>
        /\ \A p \in Skipped : ListingsOf(p) = {}
        /\ res[run].state = ArchiveOf(Without(fs, Skipped)).state
        /\ res[run].archive = ArchiveOf(Without(fs, Skipped)).archive

\* the path s is the apex or below it
InsideApex(s) == s = SourceDir \/ HasPrefix(s, SourceDir \o Slash)

\* C17 (links never escape the apex): a link has a listing only if its
\* cleaned target, joined to the apex, is the apex or below it; the content
\* of a Link listing is a path relative to the apex that does not start
\* with "..".
LinksInsideApex ==
    Archived =>
        /\ \A p \in Walked : (fs[p].kind = "symlink" /\ ListingsOf(p) # {}) =>
               InsideApex(Join(SourceDir, Clean(fs[p].content)))
        /\ \A i \in 1..Len(listings) : listings[i].mode = ModeLink =>
               /\ ~Split(listings[i].fileContent).abs
               /\ Split(listings[i].fileContent).comps = << >>
                      \/ Head(Split(listings[i].fileContent).comps) # DotDot

\* C18 (listing paths): the listing paths of an archive are pairwise
\* different, relative, and free of "." and ".." components; no listing is
\* the apex itself.
ListingPaths ==
    Archived =>
        /\ \A i, j \in 1..Len(listings) : i # j => listings[i].path # listings[j].path
        /\ \A i \in 1..Len(listings) :
               /\ ~Split(listings[i].path).abs
               /\ listings[i].path # Dot
               /\ \A c \in 1..Len(Split(listings[i].path).comps) :
                      Split(listings[i].path).comps[c] \notin {Dot, DotDot}

(***************************************************************************)
(* The packer alone, on listings of any size.  The sort has left the       *)
(* listings in canonical order; their sizes are drawn from PackSizes,      *)
(* which lie around the target bundle size.  The packer reads contentSize  *)
(* and nothing else of a listing, and the content of these listings, too   *)
(* large to write out, is not kept.                                        *)
(***************************************************************************)
MaxPack == 4

PackSizes == {0, 1, targetBundleSize - 1, targetBundleSize, targetBundleSize + 1}

\* paths of one length, ascending
PackNames == << NameA, NameB, NameD, NameE, NameF, NameL >>

PackListing(i, size) ==
    [NewListing(PackNames[i], ModeNormal, << >>) EXCEPT !.contentSize = size]

InitPack ==
    /\ \E m \in 0..MaxPack :
         \E sizes \in [1..m -> PackSizes] :
           /\ \A i \in 1..(m - 1) : sizes[i] <= sizes[i + 1]
           /\ listings = [i \in 1..m |-> PackListing(i, sizes[i])]
    /\ fs = World({})
    /\ pc = "sorted"
    /\ run = "A"
    /\ todo = {}
    /\ res = [r \in {"A", "B", "C"} |-> NoResult]
    /\ buf = << >>
    /\ n = 0
    /\ status = "none"
    /\ parsed = << >>
    /\ k = 1
    /\ sink = << >>
    /\ input = NoInput

NextPack == ArchivePack

SpecPack == InitPack /\ [][NextPack]_vars

\* the single pass the format prescribes, from listing i with the running
\* index and size: a new bundle is started before a listing exactly when
\* the current bundle has reached the target size
RECURSIVE SinglePassFrom(_, _, _, _)
SinglePassFrom(sizes, i, curIndex, curSize) ==
    IF i > Len(sizes) THEN << >>
    ELSE LET fresh == curSize >= targetBundleSize
             idx   == IF fresh THEN curIndex + 1 ELSE curIndex
             off   == IF fresh THEN 0 ELSE curSize
         IN  << [bundleIndex |-> idx, bundleOffset |-> off] >>
                 \o SinglePassFrom(sizes, i + 1, idx, off + sizes[i])

SinglePass(sizes) == SinglePassFrom(sizes, 1, 0, 0)

\* the number of bundles of the single pass: none for no listing
SinglePassBundles(sizes) ==
    IF sizes = << >> THEN 0 ELSE SinglePass(sizes)[Len(sizes)].bundleIndex + 1

ContentSizes == [i \in 1..Len(listings) |-> listings[i].contentSize]

\* C20 (the packer is the prescribed single pass): the bundle index and
\* offset the packer gives every listing, and its number of bundles, are
\* those of the pass that starts a new bundle exactly when the current one
\* has reached the target size of 10 MiB.
PackerIsSinglePass ==
    pc = "packed" =>
        /\ \A i \in 1..Len(listings) :
               /\ listings[i].bundleIndex = SinglePass(ContentSizes)[i].bundleIndex
               /\ listings[i].bundleOffset = SinglePass(ContentSizes)[i].bundleOffset
        /\ BundlesNeeded(ContentSizes) = SinglePassBundles(ContentSizes)

(***************************************************************************)
(* Archive from the end of its walk, one of the walked entries having a    *)
(* relative path too long for the two bytes of a listing record's length.  *)
(***************************************************************************)
TooLongLen == 65536 + 1

\* a path of TooLongLen bytes, of components of 255 bytes
TooLongPath == [i \in 1..TooLongLen |-> IF i % 256 = 0 THEN 47 ELSE 97]

LongCandidates ==
    { NewListing(NameA, ModeNormal, << 120 >>),
      NewListing(NameBB, ModeNormal, << 120 >>),
      NewListing(NameB, ModeNormal, << >>),
      NewListing(NameD, ModeBareDir, << >>),
      NewListing(TooLongPath, ModeNormal, << 120 >>) }

InitLong ==
    /\ listings \in {q \in Arrangements(LongCandidates, MaxListings) :
                        \A i, j \in 1..Len(q) : i # j => q[i] # q[j]}
    /\ fs = World({})
    /\ pc = "walk"
    /\ run = "A"
    /\ todo = {}
    /\ res = [r \in {"A", "B", "C"} |-> NoResult]
    /\ buf = << >>
    /\ n = 0
    /\ status = "none"
    /\ parsed = << >>
    /\ k = 1
    /\ sink = << >>
    /\ input = NoInput

SpecLong == InitLong /\ [][NextSort]_vars

\* C19 (path too long): when the relative path of a walked entry is longer
\* than 65,535 bytes Archive fails with an error: it does not go on past
\* its walk, makes no listing record of that path and returns no archive.
PathTooLong ==
    (\E i \in 1..Len(listings) : Len(listings[i].path) > 65535) =>
        \/ pc = "walk"
        \/ pc = "archived" /\ res[run].state # "ok" /\ res[run].archive = << >>

\* the listings the packer put into bundle b, in canonical order
InBundle(b) == {i \in 1..Len(listings) : listings[i].bundleIndex = b}

\* the sum of the content sizes of the listings of the set I
RECURSIVE SizeSum(_)
SizeSum(I) ==
    IF I = {} THEN 0
    ELSE LET i == CHOOSE j \in I : TRUE IN listings[i].contentSize + SizeSum(I \ {i})

\* the last bundle index the packer used
LastBundle == IF listings = << >> THEN 0 ELSE listings[Len(listings)].bundleIndex

\* C21 (bundle packing bound): in every bundle but the last, the content
\* sizes of the listings without the last of them add up to less than the
\* target bundle size.
PackingBound ==
    pc = "packed" =>
        \A b \in 0..(LastBundle - 1) :
            InBundle(b) # {} =>
                SizeSum(InBundle(b) \ {CHOOSE i \in InBundle(b) : \A j \in InBundle(b) : j <= i})
                    < targetBundleSize

(***************************************************************************)
(* Properties of the archive Archive returns, read back from its bytes.    *)
(***************************************************************************)
\* the sections of the archive, from its meta header
DataSectionStart == BundleHeaderStart + 24 * BundleCount

\* the fields of bundle record b (0-based)
BundleOffset(b) ==
    U64Nat(SubSeq(res[run].archive, BundleHeaderStart + 24 * b + 1, BundleHeaderStart + 24 * b + 8))
BundleCompressedSize(b) ==
    U64Nat(SubSeq(res[run].archive, BundleHeaderStart + 24 * b + 9, BundleHeaderStart + 24 * b + 16))

\* the decompressed bytes of bundle b: [ok, data]
BundleContent(b) ==
    Decompress(SubSeq(res[run].archive, DataSectionStart + BundleOffset(b) + 1,
                      DataSectionStart + BundleOffset(b) + BundleCompressedSize(b)))

\* the contents of the listings of the set I, in listing order
RECURSIVE ContentsOf(_)
ContentsOf(I) ==
    IF I = {} THEN << >>
    ELSE LET i == CHOOSE j \in I : \A h \in I : j <= h
         IN  listings[i].fileContent \o ContentsOf(I \ {i})

\* C22 (contiguous bundle layout): the uncompressed content of bundle k is
\* the contents of the listings of bundle k, one after the other in
\* canonical order; a listing's bundle offset is the sum of the sizes of the
\* listings before it in its bundle, its content lies at that offset, and
\* offset plus size is within the bundle.
ContiguousBundles ==
    Archived =>
        /\ \A b \in 0..(BundleCount - 1) :
               BundleContent(b).ok /\ BundleContent(b).data = ContentsOf(InBundle(b))
        /\ \A i \in 1..Len(listings) :
               LET l == listings[i]
                   d == BundleContent(l.bundleIndex).data
               IN  /\ l.bundleIndex < BundleCount
                   /\ l.contentSize = Len(l.fileContent)
                   /\ l.bundleOffset = SizeSum({j \in InBundle(l.bundleIndex) : j < i})
                   /\ l.bundleOffset + l.contentSize <= Len(d)
                   /\ SubSeq(d, l.bundleOffset + 1, l.bundleOffset + l.contentSize)
                          = l.fileContent

\* an archive with a bundle of two listings, the second a link whose
\* content lies after the first listing's
ContiguousBundlesWitness ==
    /\ Archived
    /\ \E i \in 1..Len(listings) :
           /\ listings[i].mode = ModeLink
           /\ listings[i].bundleOffset > 0
           /\ listings[i].contentSize > 0

\* C23 (bundle header offsets): bundle 0 is at offset 0 of the data
\* section, every later bundle at the offset of the one before plus its
\* compressed size, so the offsets ascend strictly; the last bundle ends
\* where the data section, and the archive, ends.
BundleOffsets ==
    (Archived /\ BundleCount >= 1) =>
        /\ BundleOffset(0) = 0
        /\ \A b \in 1..(BundleCount - 1) :
               /\ BundleOffset(b) = BundleOffset(b - 1) + BundleCompressedSize(b - 1)
               /\ BundleOffset(b) > BundleOffset(b - 1)
        /\ DataSectionStart + BundleOffset(BundleCount - 1)
               + BundleCompressedSize(BundleCount - 1) = Len(res[run].archive)

\* an archive of two bundles, the second after the first in the data section
BundleOffsetsWitness ==
    /\ Archived
    /\ BundleCount = 2
    /\ BundleOffset(1) > 0
    /\ Len(listings) >= 2

ListingHeaderSize == U64Nat(SubSeq(res[run].archive, 17, 24))
ListingCount == U64Nat(SubSeq(res[run].archive, 25, 32))

\* where the record of listing i starts in the archive, by the bytes the
\* records before it take
RECURSIVE RecordAt(_)
RecordAt(i) == IF i = 1 THEN 40 ELSE RecordAt(i - 1) + 35 + Len(listings[i - 1].path)

\* the compressed bundles from bundle b on, one after the other
RECURSIVE CompressedFrom(_)
CompressedFrom(b) ==
    IF b >= BundleCount THEN << >>
    ELSE Compress(ContentsOf(InBundle(b))) \o CompressedFrom(b + 1)

\* C25 (framing): the archive starts with the magic number, then the hash
\* of all that follows byte 16; listing_header_size is the length in bytes
\* of the listing records, listing_count their number and bundle_count the
\* number of bundle records, so that the listing header starts at 40, the
\* bundle header at 40 + L, the data section at 40 + L + 24 B, and the data
\* section ends with the archive; Unarchive's checks and parsing read it so.
Framing ==
    Archived =>
        LET a == res[run].archive
        IN  /\ SubSeq(a, 1, 8) = << 105, 97, 109, 100, 101, 99, 97, 102 >>
            /\ SubSeq(a, 9, 16) = Hash(SubSeq(a, 17, Len(a)))
            /\ ListingCount = Len(listings)
            /\ 40 + ListingHeaderSize = RecordAt(Len(listings) + 1)
            /\ \A i \in 1..Len(listings) :
                   /\ a[RecordAt(i) + 35] = listings[i].mode
                   /\ SubSeq(a, RecordAt(i) + 36, RecordAt(i + 1)) = listings[i].path
            /\ BundleCount >= LastBundle + 1
            /\ SubSeq(a, DataSectionStart + 1, Len(a)) = CompressedFrom(0)
            /\ Verify(a, Len(a)).status = "ok"
            /\ Len(Verify(a, Len(a)).listings) = Len(listings)
            /\ \A i \in 1..Len(listings) :
                   /\ Verify(a, Len(a)).listings[i].path = listings[i].path
                   /\ Verify(a, Len(a)).listings[i].fileContent = listings[i].fileContent

\* an archive of three listing records and two bundles
FramingWitness ==
    /\ Archived
    /\ ListingCount = 3
    /\ ListingHeaderSize > 105
    /\ BundleCount = 2

(***************************************************************************)
(* Properties of the order of Unarchive's steps.                           *)
(***************************************************************************)
\* the bundle records of the slice handed to Unarchive, as it reads them
InputBundleCount == U64Nat(SubSeq(buf, 33, 40))
InputBundleRecord(b) ==
    SubSeq(buf, 40 + U64Nat(SubSeq(buf, 17, 24)) + 24 * b + 1,
           40 + U64Nat(SubSeq(buf, 17, 24)) + 24 * b + 24)
InputBundle(b) ==
    LET start == 40 + U64Nat(SubSeq(buf, 17, 24)) + 24 * InputBundleCount
                     + U64Nat(SubSeq(InputBundleRecord(b), 1, 8))
    IN  Decompress(SubSeq(buf, start + 1,
                          start + U64Nat(SubSeq(InputBundleRecord(b), 9, 16))))

\* C26 (verify before materialise): Unarchive makes its first file system
\* call only after the magic number, the checksum of the archive, the
\* decompression and checksum of every bundle and the record and content
\* checksum of every listing have been checked; a run that fails one of
\* these checks has made no file system call.
VerifyBeforeMaterialise ==
    /\ pc = "verify" => sink = << >>
    /\ (pc = "panicked" /\ status # "sink error") => sink = << >>
    /\ sink # << >> =>
           /\ SubSeq(buf, 1, 8) = magicNumber
           /\ SubSeq(buf, 9, 16) = Hash(SubSeq(buf, 17, n))
           /\ \A b \in 0..(InputBundleCount - 1) :
                  /\ InputBundle(b).ok
                  /\ Hash(InputBundle(b).data) = SubSeq(InputBundleRecord(b), 17, 24)
           /\ Len(parsed) = U64Nat(SubSeq(buf, 25, 32))
           /\ \A i \in 1..Len(parsed) :
                  parsed[i].mode \in {ModeNormal, ModeExecutable} =>
                      parsed[i].checksum = Hash(parsed[i].fileContent)

\* an input with the magic number and the right archive checksum has
\* failed on the checksum of a bundle, and nothing was created
VerifyBeforeMaterialiseWitness ==
    /\ pc = "panicked"
    /\ WellSealed
    /\ status = "bad bundle checksum"
    /\ sink = << >>

\* the two file system calls Unarchive owes listing l: its parent
\* directory, then the listing itself
ParentPathOf(l) ==
    LET c == Split(Join(OutputDir, l.path)).comps
    IN  PathString(TRUE, IF c = << >> THEN c ELSE SubSeq(c, 1, Len(c) - 1))

OpOf(l) ==
    IF l.mode = ModeBareDir THEN "MkdirAll"
    ELSE IF l.mode = ModeLink THEN "Symlink" ELSE "Create"

\* the calls of the listings before the k-th are all made, in pairs
PairsDone(m) ==
    \A j \in 1..m :
        /\ sink[2 * j - 1] = [op |-> "MkdirAll", path |-> ParentPathOf(listings[j])]
        /\ sink[2 * j] = [op |-> OpOf(listings[j]), path |-> Join(OutputDir, listings[j].path)]

\* C27 (extraction order): the file system calls are made listing by
\* listing in the order of the listing header, for each listing the call
\* for its parent directory and then the call that creates it, with no
\* call of another listing between them; a call that fails ends the run at
\* that listing, and what the earlier listings created stays as it was.
ExtractionOrder ==
    /\ [](pc \in {"create", "unarchived"} =>
             /\ Len(sink) = 2 * (k - 1)
             /\ k - 1 <= Len(listings)
             /\ PairsDone(k - 1))
    /\ []((pc = "panicked" /\ status = "sink error") =>
             /\ k <= Len(listings)
             /\ Len(sink) \in {2 * k - 1, 2 * k}
             /\ PairsDone(k - 1)
             /\ sink[2 * k - 1] = [op |-> "MkdirAll", path |-> ParentPathOf(listings[k])]
             /\ Len(sink) = 2 * k =>
                    sink[2 * k] = [op |-> OpOf(listings[k]),
                                   path |-> Join(OutputDir, listings[k].path)]
             /\ ~ENABLED NextU)
    /\ [][(status' = "sink error" /\ status # "sink error") =>
              \A p \in DOMAIN fs : p \in DOMAIN fs' /\ fs'[p] = fs[p]]_vars

\* two listings were created and the call for the third has failed
ExtractionOrderWitness ==
    /\ pc = "panicked"
    /\ status = "sink error"
    /\ k = 3
    /\ Len(sink) = 6

=============================================================================
